---- MODULE Spec2Model ----
(***************************************************************************)
(* A model of src/app.py: the signature-decipher extractor                 *)
(* (get_decipher_logic), the stream-record normalizer                      *)
(* (extract_stream_info) and the request handler (parse_innertube_api).    *)
(*                                                                         *)
(* The program keeps no state between calls.  The state of the model is    *)
(* the call in flight: which function ran (op), its input (arg), what it   *)
(* returned or raised (ret), and the calls it made on the way (trace).     *)
(*                                                                         *)
(* A Python str is a sequence of one-character strings, so that split,     *)
(* parse_qs and the regular expressions are computed character by          *)
(* character.  A dict is a function whose DOMAIN is its key set.           *)
(***************************************************************************)
EXTENDS Integers, Sequences, FiniteSets, TLC

VARIABLES op, arg, ret, trace

vars == <<op, arg, ret, trace>>

-----------------------------------------------------------------------------
(* Python values *)

\* Python None / JSON null: no str equals it (a str holds one-character items).
None == <<"None">>

\* Marks a key left out of a dict literal while the inputs are enumerated.
Absent == <<"Absent">>

\* dict.get(k, default)
Get(d, k, default) == IF k \in DOMAIN d THEN d[k] ELSE default

\* The dict holding the keys of record r whose value is not Absent.
MkDict(r) == [k \in {x \in DOMAIN r : r[x] # Absent} |-> r[k]]

\* The outcome of a call: a returned value with its Python type, or a raised
\* exception with its class and message.
Return(t, v) == [kind |-> "return", type |-> t, value |-> v]

Raise(e, msg) == [kind |-> "raise", type |-> e, value |-> msg]

\* No call has been made, or the last one has been handed to its caller.
NoCall == [kind |-> "idle", type |-> "NoneType", value |-> None]

-----------------------------------------------------------------------------
(* str methods *)

\* Position of the first c in s at or after i, 0 when there is none.
IndexFrom(s, c, i) ==
    IF \E j \in i..Len(s) : s[j] = c
    THEN CHOOSE j \in i..Len(s) : s[j] = c /\ \A k \in i..(j - 1) : s[k] # c
    ELSE 0

\* s[i:] (1-based i)
Tail_(s, i) == SubSeq(s, i, Len(s))

\* str.split(sep) for a one-character separator
RECURSIVE Split(_, _)
Split(s, sep) ==
    LET i == IndexFrom(s, sep, 1)
    IN  IF i = 0 THEN <<s>>
        ELSE <<SubSeq(s, 1, i - 1)>> \o Split(Tail_(s, i + 1), sep)

\* str.split(sep, 1)
SplitOnce(s, sep) ==
    LET i == IndexFrom(s, sep, 1)
    IN  IF i = 0 THEN <<s>> ELSE <<SubSeq(s, 1, i - 1), Tail_(s, i + 1)>>

\* seq[-1]
Last(q) == q[Len(q)]

\* str.replace(a, b) for one-character a and b
Replace(s, a, b) == [i \in 1..Len(s) |-> IF s[i] = a THEN b ELSE s[i]]

-----------------------------------------------------------------------------
(* urllib.parse.parse_qs, as called at src/app.py:127 with its defaults     *)
(* (separator "&", keep_blank_values False, strict_parsing False).          *)

\* The percent escapes the inputs use, with the character each one encodes.
HexChar ==
    (<<"3", "A">> :> ":") @@ (<<"3", "a">> :> ":") @@
    (<<"2", "F">> :> "/") @@ (<<"2", "f">> :> "/") @@
    (<<"2", "6">> :> "&") @@ (<<"3", "D">> :> "=")

\* urllib.parse.unquote: %XX becomes its character, a malformed escape stays.
RECURSIVE unquote(_)
unquote(s) ==
    IF s = <<>> THEN <<>>
    ELSE IF s[1] = "%" /\ Len(s) >= 3 /\ <<s[2], s[3]>> \in DOMAIN HexChar
         THEN <<HexChar[<<s[2], s[3]>>]>> \o unquote(Tail_(s, 4))
         ELSE <<s[1]>> \o unquote(Tail_(s, 2))

\* parse_qsl over the fields already split on "&": the (name, value) pairs in
\* order; an empty field, a field without "=" and a blank value are dropped.
RECURSIVE parse_fields(_)
parse_fields(fields) ==
    IF fields = <<>> THEN <<>>
    ELSE LET nv   == SplitOnce(fields[1], "=")
             rest == parse_fields(Tail(fields))
         IN  IF fields[1] = <<>> \/ Len(nv) # 2 \/ nv[2] = <<>> THEN rest
             ELSE <<<<unquote(Replace(nv[1], "+", " ")),
                      unquote(Replace(nv[2], "+", " "))>>>> \o rest

parse_qsl(qs) == parse_fields(Split(qs, "&"))

\* The values of name among pairs, in order.
RECURSIVE ValuesOf(_, _)
ValuesOf(pairs, name) ==
    IF pairs = <<>> THEN <<>>
    ELSE (IF pairs[1][1] = name THEN <<pairs[1][2]>> ELSE <<>>)
         \o ValuesOf(Tail(pairs), name)

\* The dict from each name among pairs to the list of its values, in order.
values_by_name(pairs) ==
    [name \in {pairs[i][1] : i \in 1..Len(pairs)} |-> ValuesOf(pairs, name)]

\* parse_qs: the (name, value) pairs of parse_qsl, grouped by name.
parse_qs(qs) == values_by_name(parse_qsl(qs))

-----------------------------------------------------------------------------
(* extract_stream_info, src/app.py:103-145 *)

\* Lines 107-115: the record before the url / signatureCipher branch.
stream_info_init(format_data) ==
    [itag         |-> Get(format_data, "itag", None),
     mimeType     |-> Get(format_data, "mimeType", None),
     qualityLabel |-> Get(format_data, "qualityLabel",
                          Get(format_data, "quality", None)),
     is_ciphered  |-> FALSE,
     is_playable  |-> FALSE,
     url          |-> None,
     s_cipher     |-> None]

\* Lines 128-138: the fields set from the parsed signatureCipher.
cipher_fields_of(cipher_params) ==
    LET base_url == Get(cipher_params, <<"u", "r", "l">>, <<None>>)[1]
    IN  (IF base_url # None /\ base_url # <<>>
         THEN [url |-> base_url] ELSE <<>>)
        @@ [is_ciphered |-> TRUE,
            s_cipher    |-> Get(cipher_params, <<"s">>, <<None>>)[1],
            sp          |-> Get(cipher_params, <<"s", "p">>,
                                <<<<"s", "i", "g">>>>)[1]]

\* Lines 122-138: the fields the signatureCipher branch sets.
cipher_fields(signatureCipher) == cipher_fields_of(parse_qs(signatureCipher))

\* Lines 117-138: the branch on url, then on signatureCipher.
access_fields(format_data) ==
    IF "url" \in DOMAIN format_data
    THEN [url |-> format_data["url"], is_playable |-> TRUE]
    ELSE IF "signatureCipher" \in DOMAIN format_data
         THEN cipher_fields(format_data["signatureCipher"])
         ELSE <<>>

\* Line 141: mimeType.split(";")[0].split("/")[-1]
container_of(mimeType) == Last(Split(Split(mimeType, ";")[1], "/"))

\* str(e) of the AttributeError of line 141, shortened.
S_no_split == <<"n", "o", " ", "s", "p", "l", "i", "t">>

\* Lines 140-145.  Line 141 calls .split on stream_info["mimeType"]; that is
\* None when the descriptor has no mimeType (or a null one), and then the
\* call raises AttributeError and nothing is returned.
derived_fields(format_data, stream_info) ==
    IF stream_info["mimeType"] = None
    THEN Raise("AttributeError", S_no_split)
    ELSE Return("dict",
                [container |-> container_of(stream_info["mimeType"]),
                 vcodec    |-> Get(format_data, "vcodec", None),
                 acodec    |-> Get(format_data, "acodec", None)]
                @@ stream_info)

\* The whole function: the record of lines 107-138, then lines 140-145.
extract_stream_info(format_data) ==
    derived_fields(format_data,
                   access_fields(format_data) @@ stream_info_init(format_data))

-----------------------------------------------------------------------------
(* Inputs of extract_stream_info *)

MimeTypes ==
    {Absent, None,
     <<"v", "/", "m", "p", "4", ";", " ", "c", "=", "a", "/", "b">>,
     <<"a", "/", "x", "/", "w", "e", "b", "m">>,
     <<"m", "p", "4">>}

Urls == {Absent, None, <<>>, <<"h", ":", "/", "v">>}

SignatureCiphers ==
    {Absent,
     <<>>,
     \* s=AA&sp=x&url=h%3A%2Fv
     <<"s", "=", "A", "A", "&", "s", "p", "=", "x", "&",
       "u", "r", "l", "=", "h", "%", "3", "A", "%", "2", "F", "v">>,
     \* s=A&url=u&s=B&url=w
     <<"s", "=", "A", "&", "u", "r", "l", "=", "u", "&",
       "s", "=", "B", "&", "u", "r", "l", "=", "w">>,
     \* sp=&url=&s
     <<"s", "p", "=", "&", "u", "r", "l", "=", "&", "s">>,
     \* sp=y&sp=z&&s=a+b
     <<"s", "p", "=", "y", "&", "s", "p", "=", "z", "&", "&",
       "s", "=", "a", "+", "b">>}

Descriptors ==
    {MkDict([itag |-> it, mimeType |-> mt, quality |-> q, qualityLabel |-> ql,
             url |-> u, signatureCipher |-> sc, vcodec |-> vc, acodec |-> ac]) :
        it \in {Absent, <<"1", "8">>},
        mt \in MimeTypes,
        q  \in {Absent, <<"h", "d">>},
        ql \in {Absent, <<"7", "2", "0", "p">>},
        u  \in Urls,
        sc \in SignatureCiphers,
        vc \in {Absent, <<"a", "v", "c">>},
        ac \in {Absent, <<"m", "p", "4", "a">>}}

-----------------------------------------------------------------------------
(* Regular expressions, as re.search runs them (src/app.py:49, 58, 69).     *)
(*                                                                         *)
(* A pattern is a sequence of items: a literal text, or a character class  *)
(* repeated zero or more ("star") or one or more ("plus") times.  In every *)
(* pattern of the program a repeated class is followed by a literal whose  *)
(* first character is outside the class, so the greedy run is the only     *)
(* way the repetition can match and no backtracking is needed.             *)

Lower ==
    {"a", "b", "c", "d", "e", "f", "g", "h", "i", "j", "k", "l", "m",
     "n", "o", "p", "q", "r", "s", "t", "u", "v", "w", "x", "y", "z"}

Upper ==
    {"A", "B", "C", "D", "E", "F", "G", "H", "I", "J", "K", "L", "M",
     "N", "O", "P", "Q", "R", "S", "T", "U", "V", "W", "X", "Y", "Z"}

Digit == {"0", "1", "2", "3", "4", "5", "6", "7", "8", "9"}

\* \w
Word == Lower \cup Upper \cup Digit \cup {"_"}

\* [a-zA-Z0-9$]
IdChar == Lower \cup Upper \cup Digit \cup {"$"}

\* \s
Space == {" ", "\t", "\n"}

Lit(text) == [kind |-> "lit", of |-> text]

Star(class) == [kind |-> "star", of |-> class]

Plus(class) == [kind |-> "plus", of |-> class]

\* Whether text lies in t at position i.
StartsWithAt(t, i, text) ==
    /\ i + Len(text) - 1 <= Len(t)
    /\ \A k \in 1..Len(text) : t[i + k - 1] = text[k]

\* The position after the longest run of class characters of t from i.
RECURSIVE RunEnd(_, _, _)
RunEnd(t, i, class) ==
    IF i <= Len(t) /\ t[i] \in class THEN RunEnd(t, i + 1, class) ELSE i

\* The position after the match of pat in t that starts at i; 0 when pat
\* does not match there.
RECURSIVE MatchAt(_, _, _)
MatchAt(t, i, pat) ==
    IF pat = <<>> THEN i
    ELSE IF pat[1].kind = "lit"
         THEN IF StartsWithAt(t, i, pat[1].of)
              THEN MatchAt(t, i + Len(pat[1].of), Tail(pat))
              ELSE 0
         ELSE LET e == RunEnd(t, i, pat[1].of)
              IN  IF pat[1].kind = "plus" /\ e = i THEN 0
                  ELSE MatchAt(t, e, Tail(pat))

\* The least member of a non-empty set of positions.
Leftmost(positions) == CHOOSE i \in positions : \A j \in positions : i <= j

\* re.search: the leftmost position at or after i where pat matches, else 0.
SearchFrom(t, pat, i) ==
    LET hits == {j \in i..(Len(t) + 1) : MatchAt(t, j, pat) # 0}
    IN  IF hits = {} THEN 0 ELSE Leftmost(hits)

\* str.strip()
RECURSIVE strip(_)
strip(s) ==
    IF s # <<>> /\ s[1] \in Space THEN strip(Tail(s))
    ELSE IF s # <<>> /\ s[Len(s)] \in Space THEN strip(SubSeq(s, 1, Len(s) - 1))
         ELSE s

NoMatch == [found |-> FALSE, group |-> <<>>]

Match(text) == [found |-> TRUE, group |-> text]

-----------------------------------------------------------------------------
(* get_decipher_logic, src/app.py:26-87 *)

\* Line 49, up to the captured body:
\* (\w+)\.sig\|\|(\w+)\.sig=function\s*\(\s*a\s*\)\s*{\s*a\s*=\s*a\.split\(""\)\s*;
MainHead ==
    <<Plus(Word), Lit(<<".", "s", "i", "g", "|", "|">>),
      Plus(Word), Lit(<<".", "s", "i", "g", "=",
                        "f", "u", "n", "c", "t", "i", "o", "n">>),
      Star(Space), Lit(<<"(">>), Star(Space), Lit(<<"a">>),
      Star(Space), Lit(<<")">>), Star(Space), Lit(<<"{">>),
      Star(Space), Lit(<<"a">>), Star(Space), Lit(<<"=">>),
      Star(Space), Lit(<<"a", ".", "s", "p", "l", "i", "t", "(", "\"", "\"", ")">>),
      Star(Space), Lit(<<";">>)>>

\* Line 49, after the captured body: return\s+a\.join\(""\)\s*}
MainTail ==
    <<Lit(<<"r", "e", "t", "u", "r", "n">>), Plus(Space),
      Lit(<<"a", ".", "j", "o", "i", "n", "(", "\"", "\"", ")">>),
      Star(Space), Lit(<<"}">>)>>

\* Line 58: ([a-zA-Z0-9$]+)\.[a-zA-Z0-9$]+\(a,\d+\) ; CallHead is group 1 and
\* CallRest what follows it.
CallHead == <<Plus(IdChar)>>

CallRest ==
    <<Lit(<<".">>), Plus(IdChar), Lit(<<"(", "a", ",">>), Plus(Digit),
      Lit(<<")">>)>>

\* TableHead without the "={" that must follow the identifier.
TableHeadOpen(name) == <<Lit(<<"v", "a", "r">>), Plus(Space), Lit(name)>>

\* Line 69: 'var\s+' + re.escape(name) + '={' ; re.escape makes every
\* character of name stand for itself, so name is a literal of the pattern.
TableHead(name) ==
    <<Lit(<<"v", "a", "r">>), Plus(Space), Lit(name), Lit(<<"=", "{">>)>>

\* Line 69, the end of the pattern: }; (what lies between is .*? under DOTALL)
TableTail == <<Lit(<<"}", ";">>)>>

\* Line 49: the leftmost position where MainHead matches and MainTail matches
\* somewhere after it; group 3 is the text between, up to the nearest MainTail.
main_func_match(js_code) ==
    LET after(i) == MatchAt(js_code, i, MainHead)
        close(i) == SearchFrom(js_code, MainTail, after(i))
        hits     == {i \in 1..Len(js_code) : after(i) # 0 /\ close(i) # 0}
    IN  IF hits = {} THEN NoMatch
        ELSE Match(SubSeq(js_code, after(Leftmost(hits)),
                          close(Leftmost(hits)) - 1))

\* Line 58: group 1 of the leftmost call <NAME>.<method>(a,<digits>).
helper_object_name(signature_operations_code) ==
    LET i == SearchFrom(signature_operations_code, CallHead \o CallRest, 1)
    IN  IF i = 0 THEN NoMatch
        ELSE Match(SubSeq(signature_operations_code, i,
                          RunEnd(signature_operations_code, i, IdChar) - 1))

\* Line 69: group 0, from the leftmost "var <name>={" that a "};" follows to
\* the nearest "};".
helper_func_match(js_code, helper_obj_name) ==
    LET after(i) == MatchAt(js_code, i, TableHead(helper_obj_name))
        close(i) == SearchFrom(js_code, TableTail, after(i))
        hits     == {i \in 1..Len(js_code) : after(i) # 0 /\ close(i) # 0}
    IN  IF hits = {} THEN NoMatch
        ELSE Match(SubSeq(js_code, Leftmost(hits), close(Leftmost(hits)) + 1))

S_success == <<"s", "u", "c", "c", "e", "s", "s">>

S_error == <<"e", "r", "r", "o", "r">>

\* Lines 78-83
decipher_result(ops, name, body) ==
    [main_operations    |-> ops,
     helper_object_name |-> name,
     helper_func_body   |-> body,
     status             |-> S_success]

\* Line 87
error_result(message) == [status |-> S_error, message |-> message]

\* Lines 37-83: the three searches over the downloaded text, with the names
\* of the searches that ran.
decipher_steps(js_code) ==
    LET main == main_func_match(js_code)
        ops  == strip(main.group)
        name == helper_object_name(ops)
        tbl  == helper_func_match(js_code, name.group)
    IN  IF ~main.found
        THEN [ret |-> Return("NoneType", None), ran |-> <<"main_func_match">>]
        ELSE IF ~name.found
        THEN [ret |-> Return("NoneType", None),
              ran |-> <<"main_func_match", "helper_object_name">>]
        ELSE IF ~tbl.found
        THEN [ret |-> Return("NoneType", None),
              ran |-> <<"main_func_match", "helper_object_name",
                        "helper_func_match">>]
        ELSE [ret |-> Return("dict", decipher_result(ops, name.group, tbl.group)),
              ran |-> <<"main_func_match", "helper_object_name",
                        "helper_func_match">>]

\* get_decipher_logic without the raise_for_status() of line 34: the body of
\* an error answer is searched like a script.
get_decipher_logic_unchecked(response) ==
    IF response.kind = "raise"
    THEN [ret |-> Return("dict", error_result(response.value)),
          ran |-> <<"requests.get">>]
    ELSE LET steps == decipher_steps(response.value.text)
         IN  [ret |-> steps.ret, ran |-> <<"requests.get">> \o steps.ran]

\* The whole function, given what requests.get(js_url) does: it raises
\* (response.kind = "raise") or returns a response with a status code and a
\* text.  raise_for_status raises HTTPError for a 4xx or 5xx status.  Whatever
\* is raised inside the try block is caught at line 85.
get_decipher_logic(response) ==
    IF response.kind = "raise"
    THEN [ret |-> Return("dict", error_result(response.value)),
          ran |-> <<"requests.get">>]
    ELSE IF response.value.status_code >= 400
    THEN [ret |-> Return("dict", error_result(response.value.reason)),
          ran |-> <<"requests.get", "raise_for_status">>]
    ELSE LET steps == decipher_steps(response.value.text)
         IN  [ret |-> steps.ret,
              ran |-> <<"requests.get", "raise_for_status">> \o steps.ran]

-----------------------------------------------------------------------------
(* Inputs of get_decipher_logic: player scripts put together from a        *)
(* decipher function (a head, a body, a tail) and table declarations       *)
(* before and after it.                                                    *)

\* How many table declarations a script holds at most.
MaxTables == 2

\* b.sig||b.sig=function(a){a=a.split("");
HeadTight ==
    <<"b", ".", "s", "i", "g", "|", "|", "b", ".", "s", "i", "g", "=", "f",
      "u", "n", "c", "t", "i", "o", "n", "(", "a", ")", "{", "a", "=", "a",
      ".", "s", "p", "l", "i", "t", "(", "\"", "\"", ")", ";">>

\* b.sig||c_.sig=function (a) { a = a.split("") ;
HeadSpaced ==
    <<"b", ".", "s", "i", "g", "|", "|", "c", "_", ".", "s", "i", "g", "=",
      "f", "u", "n", "c", "t", "i", "o", "n", " ", "(", "a", ")", " ", "{",
      " ", "a", " ", "=", " ", "a", ".", "s", "p", "l", "i", "t", "(", "\"",
      "\"", ")", " ", ";">>

\* b.sig=function(a){a=a.split("");
HeadNoGuard ==
    <<"b", ".", "s", "i", "g", "=", "f", "u", "n", "c", "t", "i", "o", "n",
      "(", "a", ")", "{", "a", "=", "a", ".", "s", "p", "l", "i", "t", "(",
      "\"", "\"", ")", ";">>

\* return a.join("")}
TailTight ==
    <<"r", "e", "t", "u", "r", "n", " ", "a", ".", "j", "o", "i", "n", "(",
      "\"", "\"", ")", "}">>

\* return\n a.join("") }
TailSpaced ==
    <<"r", "e", "t", "u", "r", "n", "\n", " ", "a", ".", "j", "o", "i", "n",
      "(", "\"", "\"", ")", " ", "}">>

\* return a.join()}
TailOther ==
    <<"r", "e", "t", "u", "r", "n", " ", "a", ".", "j", "o", "i", "n", "(",
      ")", "}">>

\* b.yG(a,72);b.zV(a,3);
BodyTwoCalls ==
    <<"b", ".", "y", "G", "(", "a", ",", "7", "2", ")", ";", "b", ".", "z",
      "V", "(", "a", ",", "3", ")", ";">>

\* a.reverse();
BodyNoCall ==
    <<"a", ".", "r", "e", "v", "e", "r", "s", "e", "(", ")", ";">>

\* $b.yG(a,7);
BodyDollar ==
    <<"$", "b", ".", "y", "G", "(", "a", ",", "7", ")", ";">>

\* _b.yG(a,7);
BodyUnderscore ==
    <<"_", "b", ".", "y", "G", "(", "a", ",", "7", ")", ";">>

\*  c.x(a,1);b.y(a,2); 
BodyOtherFirst ==
    <<" ", "c", ".", "x", "(", "a", ",", "1", ")", ";", "b", ".", "y", "(",
      "a", ",", "2", ")", ";", " ">>

\* bb.zV(a,3);
BodyLong ==
    <<"b", "b", ".", "z", "V", "(", "a", ",", "3", ")", ";">>

\* b.yG(a, 7);
BodySpacedArgs ==
    <<"b", ".", "y", "G", "(", "a", ",", " ", "7", ")", ";">>

\* not javascript at all
Garbage ==
    <<"n", "o", "t", " ", "j", "a", "v", "a", "s", "c", "r", "i", "p", "t",
      " ", "a", "t", " ", "a", "l", "l">>

\* var b={zV:1};
TableB ==
    <<"v", "a", "r", " ", "b", "=", "{", "z", "V", ":", "1", "}", ";">>

\* var bb={zV:2};
TableBB ==
    <<"v", "a", "r", " ", "b", "b", "=", "{", "z", "V", ":", "2", "}", ";">>

\* var $b={zV:3};
TableDollarB ==
    <<"v", "a", "r", " ", "$", "b", "=", "{", "z", "V", ":", "3", "}", ";">>

\* var  c={};
TableC ==
    <<"v", "a", "r", " ", " ", "c", "=", "{", "}", ";">>

\* var b ={zV:4};
TableBSpaced ==
    <<"v", "a", "r", " ", "b", " ", "=", "{", "z", "V", ":", "4", "}", ";">>

\* var\n b={zV:{}};x};
TableBNested ==
    <<"v", "a", "r", "\n", " ", "b", "=", "{", "z", "V", ":", "{", "}", "}",
      ";", "x", "}", ";">>

Functions ==
    {ht[1] \o b \o ht[2] :
        ht \in {<<HeadTight, TailTight>>, <<HeadSpaced, TailSpaced>>,
                <<HeadNoGuard, TailTight>>},
        b  \in {BodyTwoCalls, BodyNoCall, BodyDollar, BodyUnderscore,
                BodyOtherFirst, BodyLong, BodySpacedArgs}}
    \cup {HeadTight \o BodyTwoCalls \o TailOther, Garbage}

Tables ==
    {TableB, TableBB, TableDollarB, TableC, TableBSpaced, TableBNested}

\* The concatenation of the texts of q.
RECURSIVE Concat(_)
Concat(q) == IF q = <<>> THEN <<>> ELSE q[1] \o Concat(Tail(q))

TableLists == UNION {[1..k -> Tables] : k \in 0..MaxTables}

\* The table declarations before and after the function.
Layouts ==
    {ba \in TableLists \X TableLists : Len(ba[1]) + Len(ba[2]) <= MaxTables}

Script(f, layout) == Concat(layout[1]) \o f \o Concat(layout[2])

\* str(e) of a transport error, shortened.
S_timeout == <<"t", "i", "m", "e", "o", "u", "t">>

\* What requests.get(js_url) can do: raise, or return a response.
HttpResponse(status_code, reason, text) ==
    Return("Response",
           [status_code |-> status_code, reason |-> reason, text |-> text])

\* The ways the download of a script js can go.
ScriptResponses(js) ==
    {Raise("ConnectionError", S_timeout),
     HttpResponse(404, <<"4", "0", "4">>, Garbage),
     HttpResponse(503, <<"5", "0", "3">>, <<>>),
     HttpResponse(200, <<"O", "K">>, js)}

-----------------------------------------------------------------------------
(* parse_innertube_api, src/app.py:151-201 *)

\* Line 160, the message of the 400 answer
S_usage ==
    <<"V", "i", "d", "e", "o", " ", "I", "D", " ", "(", "i", "d", ")", " ",
      "i", "s", " ", "r", "e", "q", "u", "i", "r", "e", "d", ".", " ", "U",
      "s", "a", "g", "e", ":", " ", "/", "p", "a", "r", "s", "e", "_", "i",
      "n", "n", "e", "r", "t", "u", "b", "e", "?", "i", "d", "=", "d", "Q",
      "w", "4", "w", "9", "W", "g", "X", "c", "Q">>

\* Line 172, the text before str(e)
S_failed ==
    <<"F", "a", "i", "l", "e", "d", " ", "t", "o", " ", "f", "e", "t", "c",
      "h", " ", "d", "a", "t", "a", " ", "f", "r", "o", "m", " ", "e", "x",
      "t", "e", "r", "n", "a", "l", " ", "A", "P", "I", ":", " ">>

\* Line 177
S_LOGIN_REQUIRED ==
    <<"L", "O", "G", "I", "N", "_", "R", "E", "Q", "U", "I", "R", "E", "D">>

\* Line 177
S_UNPLAYABLE ==
    <<"U", "N", "P", "L", "A", "Y", "A", "B", "L", "E">>

\* A direct url
S_direct_url ==
    <<"h", ":", "/", "v">>

\* A mimeType
S_mime ==
    <<"v", "i", "d", "e", "o", "/", "m", "p", "4", ";", " ", "c", "=", "a">>

\* A signatureCipher
S_cipher ==
    <<"s", "=", "A", "A", "&", "s", "p", "=", "x", "&", "u", "r", "l", "=",
      "h", "%", "3", "A", "%", "2", "F", "v">>

\* The descriptors of the provider documents: one with a direct url, one
\* with a signatureCipher, one without mimeType.
DirectFormat ==
    [itag |-> <<"1", "8">>, url |-> S_direct_url, mimeType |-> S_mime]

CipheredFormat ==
    [itag |-> <<"2", "2">>, signatureCipher |-> S_cipher, mimeType |-> S_mime]

BareFormat == [itag |-> <<"1", "7">>, url |-> S_direct_url]

FormatPool == {DirectFormat, CipheredFormat, BareFormat}

\* jsonify(body), status: the answer of the route (status 200 when the code
\* names none).
Answer(status, body) == Return("Response", [status |-> status, body |-> body])

\* Line 177 without its test of playabilityStatus.
denied_by_status(innertube_response) ==
    Get(innertube_response, "status", None) = S_error

\* Line 177: the provider reports an error or refuses playback.
denied(innertube_response) ==
    \/ Get(innertube_response, "status", None) = S_error
    \/ Get(Get(innertube_response, "playabilityStatus", <<>>), "status", None)
           \in {S_LOGIN_REQUIRED, S_UNPLAYABLE}

\* Lines 180-186: formats, then adaptiveFormats.
all_formats(innertube_response) ==
    LET streaming_data == Get(innertube_response, "streamingData", <<>>)
    IN  Get(streaming_data, "formats", <<>>)
        \o Get(streaming_data, "adaptiveFormats", <<>>)

\* Lines 189-192, given what extract_stream_info does for each format: the
\* loop ends after the last format, or with the first call that raises, and
\* the exception then leaves the handler.
stream_loop_over(outcomes) ==
    LET raised == {i \in 1..Len(outcomes) : outcomes[i].kind = "raise"}
        n      == IF raised = {} THEN Len(outcomes) ELSE Leftmost(raised)
    IN  [ret |-> IF raised = {}
                 THEN Return("list", [i \in 1..n |-> outcomes[i].value])
                 ELSE outcomes[n],
         ran |-> [i \in 1..n |-> "extract_stream_info"]]

\* Lines 189-192: extract_stream_info on each format in turn.
stream_loop(formats) ==
    stream_loop_over([i \in 1..Len(formats) |->
                         extract_stream_info(formats[i])])

\* Lines 195-201
success_body(video_id, innertube_response, stream_list) ==
    [status       |-> S_success,
     videoId      |-> video_id,
     videoTitle   |-> Get(Get(innertube_response, "videoDetails", <<>>),
                          "title", None),
     stream_count |-> Len(stream_list),
     streams      |-> stream_list]

\* Lines 189-201: the answer after the loop; an exception of the loop leaves
\* the handler instead.
answer_streams(video_id, innertube_response, loop) ==
    IF loop.ret.kind = "raise" THEN loop
    ELSE [ret |-> Answer(200, success_body(video_id, innertube_response,
                                           loop.ret.value)),
          ran |-> loop.ran]

\* Lines 174-201: what the handler does with the provider's document.
process(video_id, innertube_response) ==
    IF denied(innertube_response)
    THEN [ret |-> Answer(403, innertube_response), ran |-> <<>>]
    ELSE answer_streams(video_id, innertube_response,
                        stream_loop(all_formats(innertube_response)))

\* str(e) of the JSON decoding error, shortened
S_not_json ==
    <<"E", "x", "p", "e", "c", "t", "i", "n", "g", " ", "v", "a", "l", "u",
      "e">>

\* Line 172
bad_gateway(message) ==
    Answer(502, [status |-> S_error, message |-> S_failed \o message])

\* Lines 165-169 done, the rest of the handler follows.
after_fetch(rest) ==
    [ret |-> rest.ret,
     ran |-> <<"requests.get", "raise_for_status", "response.json">>
             \o rest.ran]

\* The whole handler, given the id parameter of the request, what
\* requests.get(target_url) does, and whether the installed requests raises
\* its own JSONDecodeError (a RequestException, caught at line 171) or the
\* json module's (a ValueError, which nothing catches) for a body that is
\* not JSON.
parse_innertube_api(video_id, response, json_error_is_request_exception) ==
    IF video_id = None \/ video_id = <<>>
    THEN [ret |-> Answer(400, [status |-> S_error, message |-> S_usage]),
          ran |-> <<>>]
    ELSE IF response.kind = "raise"
    THEN [ret |-> bad_gateway(response.value), ran |-> <<"requests.get">>]
    ELSE IF response.value.status_code >= 400
    THEN [ret |-> bad_gateway(response.value.reason),
          ran |-> <<"requests.get", "raise_for_status">>]
    ELSE IF ~response.value.is_json
    THEN [ret |-> IF json_error_is_request_exception
                  THEN bad_gateway(S_not_json)
                  ELSE Raise("JSONDecodeError", S_not_json),
          ran |-> <<"requests.get", "raise_for_status", "response.json">>]
    ELSE after_fetch(process(video_id, response.value.json))

-----------------------------------------------------------------------------
(* Inputs of parse_innertube_api *)

\* How many format descriptors a provider document holds at most.
MaxFormats == 2

\* A video id
S_video_id ==
    <<"d", "Q", "w", "4">>

\* A provider status other than "error"
S_ok ==
    <<"o", "k">>

\* A video title
S_title ==
    <<"T", "i", "t", "l", "e">>

FormatLists == UNION {[1..k -> FormatPool] : k \in 0..MaxFormats}

\* streamingData: absent, or a dict in which formats and adaptiveFormats
\* are each absent or a list.
StreamingParts ==
    {<<>>}
    \cup {[streamingData |-> f @@ a] :
            f \in {<<>>} \cup {[formats |-> l] : l \in FormatLists},
            a \in {<<>>} \cup {[adaptiveFormats |-> l] : l \in FormatLists}}

StatusParts == {<<>>, [status |-> S_error], [status |-> S_ok]}

PlayabilityParts ==
    {<<>>, [playabilityStatus |-> <<>>]}
    \cup {[playabilityStatus |-> [status |-> st]] :
            st \in {S_ok, S_LOGIN_REQUIRED, S_UNPLAYABLE}}

DetailsParts == {<<>>, [videoDetails |-> [title |-> S_title]]}

\* The provider documents.
Documents ==
    {st @@ pl @@ sd @@ vd :
        st \in StatusParts, pl \in PlayabilityParts,
        sd \in {x \in StreamingParts : Len(all_formats(x)) <= MaxFormats},
        vd \in DetailsParts}

MetadataResponse(status_code, reason, is_json, json) ==
    Return("Response", [status_code |-> status_code, reason |-> reason,
                        is_json |-> is_json, json |-> json])

\* The ways the download of the provider document doc can go.
MetadataResponses(doc) ==
    {MetadataResponse(200, <<"O", "K">>, TRUE, doc)}
    \cup (IF doc = <<>>
          THEN {Raise("ConnectionError", S_timeout),
                MetadataResponse(404, <<"4", "0", "4">>, TRUE, doc),
                MetadataResponse(200, <<"O", "K">>, FALSE, doc)}
          ELSE {})

-----------------------------------------------------------------------------
(* The specification *)

Init ==
    /\ op = "idle"
    /\ arg = None
    /\ ret = NoCall
    /\ trace = <<>>

\* One call of extract_stream_info on one descriptor.
Normalize ==
    /\ op = "idle"
    /\ \E format_data \in Descriptors :
        /\ op' = "extract_stream_info"
        /\ arg' = format_data
        /\ ret' = extract_stream_info(format_data)
        /\ trace' = <<>>

\* The caller takes the outcome; the next call starts from scratch (no state
\* survives a call).
Done ==
    /\ op # "idle"
    /\ op' = "idle"
    /\ arg' = None
    /\ ret' = NoCall
    /\ trace' = <<>>

\* One call of get_decipher_logic; arg is what requests.get did for js_url.
Extract ==
    /\ op = "idle"
    /\ \E f \in Functions, layout \in Layouts :
       \E response \in ScriptResponses(Script(f, layout)) :
        /\ op' = "get_decipher_logic"
        /\ arg' = response
        /\ LET out == get_decipher_logic(response)
           IN  ret' = out.ret /\ trace' = out.ran

\* One request to /parse_innertube; arg is the id parameter with what
\* requests.get did for the provider's url.
Handle ==
    /\ op = "idle"
    /\ \E video_id \in {None, <<>>, S_video_id}, doc \in Documents,
          json_error_is_request_exception \in BOOLEAN :
       \E response \in MetadataResponses(doc) :
        \* A request without id never reaches the provider, and the kind of
        \* the JSON error matters to a body that is not JSON alone: the
        \* empty document stands for every document there.
        /\ (video_id # S_video_id => doc = <<>>)
        /\ (json_error_is_request_exception => doc = <<>>)
        /\ op' = "parse_innertube_api"
        /\ arg' = [id |-> video_id, response |-> response]
        /\ LET out == parse_innertube_api(video_id, response,
                                          json_error_is_request_exception)
           IN  ret' = out.ret /\ trace' = out.ran

Next == Normalize \/ Extract \/ Handle \/ Done

Spec == Init /\ [][Next]_vars

-----------------------------------------------------------------------------
(* Properties of extract_stream_info (the normalizer) *)

Normalized == op = "extract_stream_info"

Returned == ret.kind = "return"

\* The fields a record may leave absent are None in it.
OptionalAbsent(rec) ==
    /\ \A k \in {"itag", "mimeType", "qualityLabel", "url", "s_cipher",
                  "container", "vcodec", "acodec"} :
          k \in DOMAIN rec /\ rec[k] = None
    /\ "sp" \notin DOMAIN rec

\* C1: extract_stream_info returns a record for every descriptor, never
\* raises, and for the empty descriptor the record has every optional field
\* absent and is_playable false.
C1_NormalizeIsTotal ==
    Normalized =>
        /\ Returned
        /\ (DOMAIN arg = {} =>
                OptionalAbsent(ret.value) /\ ~ret.value["is_playable"])

\* C5: a descriptor with a url yields a record with that url, not ciphered,
\* playable and without ciphered signature, whatever signatureCipher holds.
C5_DirectUrlRule ==
    (Normalized /\ "url" \in DOMAIN arg) =>
        /\ Returned
        /\ ret.value["url"] = arg["url"]
        /\ ~ret.value["is_ciphered"]
        /\ ret.value["is_playable"]
        /\ ret.value["s_cipher"] = None

\* The value of the first name=value field of blob whose name is key and
\* whose value is not blank, else default.
FirstParam(blob, key, default) ==
    LET pairs == parse_qsl(blob)
        hits  == {i \in 1..Len(pairs) : pairs[i][1] = key}
    IN  IF hits = {} THEN default
        ELSE pairs[CHOOSE i \in hits : \A j \in hits : i <= j][2]

\* C6: a descriptor with a signatureCipher and no url yields a ciphered,
\* unplayable record whose url, s_cipher and sp are the first url, s and sp
\* parameters of the blob, sp being "sig" when the blob has none.
C6_CipheredRule ==
    (Normalized /\ "url" \notin DOMAIN arg /\ "signatureCipher" \in DOMAIN arg) =>
        /\ Returned
        /\ ret.value["is_ciphered"]
        /\ ~ret.value["is_playable"]
        /\ ret.value["url"] =
              FirstParam(arg["signatureCipher"], <<"u", "r", "l">>, None)
        /\ ret.value["s_cipher"] =
              FirstParam(arg["signatureCipher"], <<"s">>, None)
        /\ ret.value["sp"] =
              FirstParam(arg["signatureCipher"], <<"s", "p">>, <<"s", "i", "g">>)

\* The part of m before its first ";", then what follows its last "/".
Subtype(m) ==
    LET semi  == {i \in 1..Len(m) : m[i] = ";"}
        stop  == IF semi = {} THEN Len(m) + 1
                 ELSE CHOOSE i \in semi : \A j \in semi : i <= j
        slash == {i \in 1..(stop - 1) : m[i] = "/"}
        start == IF slash = {} THEN 1
                 ELSE 1 + CHOOSE i \in slash : \A j \in slash : j <= i
    IN  SubSeq(m, start, stop - 1)

\* C7: for every descriptor the record's container is the subtype of its
\* mimeType; without mimeType the container is absent and the record is
\* still produced, with the access fields the url / signatureCipher rules give.
C7_ContainerDerivation ==
    Normalized =>
        /\ Returned
        /\ ("mimeType" \in DOMAIN arg /\ arg["mimeType"] # None =>
                ret.value["container"] = Subtype(arg["mimeType"]))
        /\ ("mimeType" \notin DOMAIN arg =>
                /\ ret.value["container"] = None
                /\ ret.value["is_playable"] = ("url" \in DOMAIN arg))

\* C8: in every record returned, is_playable implies a usable url (neither
\* null nor empty) and not is_ciphered; a descriptor with neither url nor
\* signatureCipher gives no url, no ciphered signature and both flags false.
C8_PlayabilityInvariant ==
    (Normalized /\ Returned) =>
        /\ (ret.value["is_playable"] =>
                /\ ret.value["url"] \notin {None, <<>>}
                /\ ~ret.value["is_ciphered"])
        /\ ~(ret.value["is_ciphered"] /\ ret.value["is_playable"])
        /\ ("url" \notin DOMAIN arg /\ "signatureCipher" \notin DOMAIN arg =>
                /\ ret.value["url"] = None
                /\ ret.value["s_cipher"] = None
                /\ ~ret.value["is_ciphered"]
                /\ ~ret.value["is_playable"])

-----------------------------------------------------------------------------
(* Properties of get_decipher_logic (the extractor) *)

Extracted == op = "get_decipher_logic"

\* requests.get or raise_for_status raised.
FetchFailed == arg.kind = "raise" \/ arg.value.status_code >= 400

Ran(step) == \E i \in 1..Len(trace) : trace[i] = step

IsProgram ==
    /\ ret.type = "dict"
    /\ ret.value["status"] = S_success

\* A failure value: a dict that says so, with a message.
IsFailure ==
    /\ ret.type = "dict"
    /\ ret.value["status"] = S_error
    /\ "message" \in DOMAIN ret.value

ProgramFields == {"main_operations", "helper_object_name", "helper_func_body"}

\* C2: get_decipher_logic returns either a program or a failure value; a
\* program only when the three searches matched, and then with its three
\* fields; a failure value, never nothing, when a search did not match.
C2_ProgramOrFailure ==
    Extracted =>
        /\ Returned
        /\ (IsProgram \/ IsFailure)
        /\ (IsProgram =>
                /\ ProgramFields \subseteq DOMAIN ret.value
                /\ main_func_match(arg.value.text).found
                /\ helper_object_name(ret.value["main_operations"]).found
                /\ helper_func_match(arg.value.text,
                                     ret.value["helper_object_name"]).found)

S_PATTERN_NOT_FOUND ==
    <<"P", "A", "T", "T", "E", "R", "N", "_", "N", "O", "T", "_",
      "F", "O", "U", "N", "D">>

S_TABLE_NOT_FOUND ==
    <<"T", "A", "B", "L", "E", "_", "N", "O", "T", "_", "F", "O", "U", "N", "D">>

\* The reason a returned failure names, None when it names none.
Reason == IF ret.type = "dict" THEN Get(ret.value, "reason", None) ELSE None

\* What get_decipher_logic returns for a text without the decipher function.
PatternFailure == get_decipher_logic(HttpResponse(200, <<"O", "K">>, Garbage)).ret

\* C3: when the searches ran and the result is no program, the result names
\* the search that failed: PATTERN_NOT_FOUND when the last search run was
\* the first or the second, TABLE_NOT_FOUND when it was the third; so the
\* result of a failed third search differs from that of a failed first one.
C3_FailureNamesTheStep ==
    (Extracted /\ ~FetchFailed /\ ~IsProgram) =>
        /\ Reason = IF Ran("helper_func_match") THEN S_TABLE_NOT_FOUND
                    ELSE S_PATTERN_NOT_FOUND
        /\ (Ran("helper_func_match") /\ ret.type = PatternFailure.type =>
                ret.value # PatternFailure.value)

DeclaredName(decl) ==
    LET from == RunEnd(decl, 4, Space)
    IN  SubSeq(decl, from, IndexFrom(decl, "=", from) - 1)

\* Whether text occurs in t.
Occurs(text, t) == \E i \in 1..Len(t) : StartsWithAt(t, i, text)

\* C9: in a returned program, helper_object_name is the identifier of the
\* first <NAME>.<method>(a,<integer>) call of main_operations, and
\* helper_func_body is a "var <NAME>={...};" declaration of the script that
\* declares exactly that identifier.
C9_SuccessShape ==
    (Extracted /\ IsProgram) =>
        LET name == ret.value["helper_object_name"]
            body == ret.value["helper_func_body"]
        IN  /\ name = helper_object_name(ret.value["main_operations"]).group
            /\ Occurs(body, arg.value.text)
            /\ StartsWithAt(body, 1, <<"v", "a", "r">>)
            /\ body[4] \in Space
            /\ DeclaredName(body) = name
            /\ body[IndexFrom(body, "=", 1) + 1] = "{"
            /\ SubSeq(body, Len(body) - 1, Len(body)) = <<"}", ";">>

\* A program came back for a script that declares bb before it declares b,
\* the table of its decipher function.
C9_Witness ==
    /\ Extracted
    /\ IsProgram
    /\ ret.value["helper_object_name"] = <<"b">>
    /\ StartsWithAt(arg.value.text, 1, TableBB)
    /\ ret.value["helper_func_body"] = TableB

-----------------------------------------------------------------------------
(* Properties of parse_innertube_api (the request handler) *)

\* The handler ran and the provider's document reached it.
Fetched ==
    /\ op = "parse_innertube_api"
    /\ arg.id \notin {None, <<>>}
    /\ arg.response.kind = "return"
    /\ arg.response.value.status_code < 400
    /\ arg.response.value.is_json

Document == arg.response.value.json

\* The provider reports an error or refuses playback.
ProviderDenied ==
    \/ "status" \in DOMAIN Document /\ Document["status"] = S_error
    \/ /\ "playabilityStatus" \in DOMAIN Document
       /\ "status" \in DOMAIN Document["playabilityStatus"]
       /\ Document["playabilityStatus"]["status"]
             \in {S_LOGIN_REQUIRED, S_UNPLAYABLE}

Calls(step) == Cardinality({i \in 1..Len(trace) : trace[i] = step})

\* The descriptors of the document: formats, then adaptiveFormats.
Listed ==
    LET sd == IF "streamingData" \in DOMAIN Document
              THEN Document["streamingData"] ELSE <<>>
    IN  (IF "formats" \in DOMAIN sd THEN sd["formats"] ELSE <<>>)
        \o (IF "adaptiveFormats" \in DOMAIN sd THEN sd["adaptiveFormats"]
            ELSE <<>>)

\* C10: a denial by the provider ends the request: the answer is 403 with
\* the provider's document unchanged, no descriptor is normalized and the
\* document is fetched once.  Descriptors are normalized only otherwise, and
\* the answer then lists the records of formats followed by those of
\* adaptiveFormats, in order, with their count.
C10_DenialIsTerminal ==
    Fetched =>
        /\ Calls("requests.get") = 1
        /\ (ProviderDenied =>
                /\ Returned
                /\ ret.value.status = 403
                /\ ret.value.body = Document
                /\ Calls("extract_stream_info") = 0)
        /\ (~ProviderDenied /\ Returned =>
                /\ ret.value.status = 200
                /\ Calls("extract_stream_info") = Len(Listed)
                /\ ret.value.body["stream_count"] = Len(Listed)
                /\ ret.value.body["streams"] =
                      [i \in 1..Len(Listed) |-> extract_stream_info(Listed[i]).value])

\* A denied document that lists descriptors is answered 403.
C10_Witness ==
    /\ Fetched
    /\ ProviderDenied
    /\ Len(Listed) = MaxFormats
    /\ "status" \notin DOMAIN Document
    /\ ret.value.status = 403

====
